---- MODULE Spec2Model ----
(***************************************************************************)
(* Model of the WSG-50 gripper driver node (wsg50_driver/src/main.cpp) in  *)
(* its request/response modes (polling, script).                           *)
(*                                                                         *)
(* The primary context is single threaded: ros::spin() takes callbacks     *)
(* from the callback queue one at a time, and the wait loop of a motion    *)
(* service calls ros::spinOnce(), which runs the callbacks that are queued *)
(* at that moment INSIDE the waiting handler.  The call stack of the       *)
(* primary context is therefore part of the state (stack).                 *)
(*                                                                         *)
(* Lengths are millimetres, speeds mm/s, times seconds.                    *)
(***************************************************************************)
EXTENDS Integers, Sequences, FiniteSets, TLC

VARIABLES
    g_size,        \* device size class (main.cpp:96)
    in_motion,     \* single-flight guard (main.cpp:88)
    last_cmd_id,   \* id of the last motion command sent (main.cpp:89)
    stop_called,   \* cancellation flag (main.cpp:90)
    stack,         \* activations of service handlers of the primary context
    queue,         \* ROS callback queue: service requests not yet dispatched
    wire,          \* frames sent by the driver, not yet taken by the gripper
    inbox,         \* frames sent by the gripper, not yet read by the driver
    devq,          \* gripper: motion commands it has not yet answered terminally
    now,           \* ros::Time::now()
    resp,          \* the last response a service handler returned
    exited,        \* quit() was called: the process is gone
    nissued,       \* number of motion commands sent so far
    faults,        \* transport faults (failed sends, failed receives) still to come
    nreq,          \* number of requests the clients have made so far
    modes,         \* g_mode_script, g_mode_periodic, g_mode_polling (main.cpp:97)
    main,          \* main(): its position and what it has set up so far
    rd,            \* read_thread: its position and its locals info, pub_state
    cb,            \* position_cb: its position
    pubs,          \* what the node has published and polled so far
    goal           \* g_goal_position, g_speed (main.cpp:98) and the frames
                   \* position_cb has sent for the message it is handling

\* The state of the motion services and of the link they use.
core == <<g_size, in_motion, last_cmd_id, stop_called, stack, queue, wire,
          inbox, devq, now, resp, exited, nissued, faults, nreq>>

\* The state of startup, shutdown, telemetry and the streaming reader.
ext == <<modes, main, rd, cb, pubs, goal>>

vars == <<core, ext>>

----------------------------------------------------------------------------
\* Bounds of the model
MaxReqs == 3        \* requests made by the clients in one run
MaxQueue == 2       \* callbacks waiting in the callback queue
MaxPending == 1     \* interim E_CMD_PENDING frames per motion command
MaxFaults == 1      \* failed sends and failed receives of an unreliable link
MaxTime == 60       \* the clock stops here
ReadCycle == 15     \* longest time one recv_ack call takes
MaxPubs == 2        \* messages published on one topic in one run
MaxCalls == 2       \* calls made over an unreliable link in one run

\* Program constants
timeout_commands == 30
GRIPPER_MIN_OPEN == 0
ID_HOME == 32
ID_MOVE == 33
ID_STOP == 34
ID_GRASP == 37
ID_RELEASE == 38
ID_GET_OPENING == 67
ID_GET_SPEED == 68
ID_GET_FORCE == 69

AbsKinds == {"move", "grasp", "release"}
MotionKinds == AbsKinds \cup {"incr", "home"}

NoFrame == [id |-> 0, status |-> "none", seq |-> 0]
NoResp == [kind |-> "none", error |-> "none", ret |-> TRUE]

Req(k, w, s, d, i) == [kind |-> k, width |-> w, speed |-> s, direction |-> d, increment |-> i]

\* The id each *_async call puts on the wire.
CmdId(kind) ==
    CASE kind = "home" -> ID_HOME
      [] kind = "move" -> ID_MOVE
      [] kind = "incr" -> ID_MOVE
      [] kind = "grasp" -> ID_GRASP
      [] kind = "release" -> ID_RELEASE

\* Mutant: the grasp loop awaits the id of a move.
AwaitId_m(kind) ==
    CASE kind = "home" -> ID_HOME
      [] kind = "move" -> ID_MOVE
      [] kind = "incr" -> ID_MOVE
      [] kind = "grasp" -> ID_MOVE
      [] kind = "release" -> ID_RELEASE

\* The id each wait loop passes to recv_ack.
AwaitId(kind) ==
    CASE kind = "home" -> ID_HOME
      [] kind = "move" -> ID_MOVE
      [] kind = "incr" -> ID_MOVE
      [] kind = "grasp" -> ID_GRASP
      [] kind = "release" -> ID_RELEASE

\* The id each handler stores in last_cmd_id.
LastCmdId(kind) ==
    CASE kind = "home" -> ID_HOME
      [] kind = "move" -> ID_MOVE
      [] kind = "incr" -> ID_MOVE
      [] kind = "grasp" -> ID_GRASP
      [] kind = "release" -> ID_RELEASE

----------------------------------------------------------------------------
\* Call stack of the primary context
Top == stack[Len(stack)]
Rest == SubSeq(stack, 1, Len(stack) - 1)
SetTop(a) == Append(Rest, a)

\* A fresh activation of a handler that waits: status_t status; int msg_available = 0;
\* ros::Time begin = ros::Time::now();
Act(kind, id, seq, pc) ==
    [kind |-> kind, pc |-> pc, id |-> id, seq |-> seq, begin |-> now,
     msg_available |-> 0, status |-> NoFrame, todo |-> 0]

Reply(kind, error, ret) == [kind |-> kind, error |-> error, ret |-> ret]

----------------------------------------------------------------------------
\* The gripper
DevEntry(f) == [id |-> f.id, seq |-> f.seq, pend |-> 0, aborted |-> FALSE]

RECURSIVE Accepted(_, _)
\* The gripper's outstanding commands after it has taken the frames w.
Accepted(q, w) ==
    IF w = <<>> THEN q ELSE Accepted(Append(q, DevEntry(Head(w))), Tail(w))

AbortAll(q) == [i \in 1..Len(q) |-> [q[i] EXCEPT !.aborted = TRUE]]

\* The gripper takes the next motion frame from the link.
DevAccept ==
    /\ ~exited
    /\ wire # <<>>
    /\ devq' = Append(devq, DevEntry(Head(wire)))
    /\ wire' = Tail(wire)
    /\ UNCHANGED <<g_size, in_motion, last_cmd_id, stop_called, stack, queue,
                   inbox, now, resp, exited, nissued, faults, nreq>>
    /\ UNCHANGED ext

\* The gripper reports that the command it is executing is in progress.
DevPending ==
    /\ ~exited
    /\ devq # <<>>
    /\ Head(devq).pend < MaxPending
    /\ ~Head(devq).aborted
    /\ inbox' = Append(inbox, [id |-> Head(devq).id, status |-> "E_CMD_PENDING",
                               seq |-> Head(devq).seq])
    /\ devq' = [devq EXCEPT ![1].pend = @ + 1]
    /\ UNCHANGED <<g_size, in_motion, last_cmd_id, stop_called, stack, queue,
                   wire, now, resp, exited, nissued, faults, nreq>>
    /\ UNCHANGED ext

TerminalOf(e) ==
    IF e.aborted THEN {"E_CMD_ABORTED"} ELSE {"E_SUCCESS", "E_AXIS_BLOCKED"}

\* The gripper ends the command it is executing with its one terminal frame.
DevDone ==
    /\ ~exited
    /\ devq # <<>>
    /\ \E st \in TerminalOf(Head(devq)) :
          inbox' = Append(inbox, [id |-> Head(devq).id, status |-> st,
                                  seq |-> Head(devq).seq])
    /\ devq' = Tail(devq)
    /\ UNCHANGED <<g_size, in_motion, last_cmd_id, stop_called, stack, queue,
                   wire, now, resp, exited, nissued, faults, nreq>>
    /\ UNCHANGED ext

----------------------------------------------------------------------------
\* recv_ack(id, &status): 0 when no message is available, 1 when a message
\* with this id is available and correct, -1 on error.  Frames with another
\* id belong to another exchange and are left for it.
Matching(id) == {i \in 1..Len(inbox) : inbox[i].id = id}

First(S) == CHOOSE i \in S : \A j \in S : i <= j

Without(s, i) == SubSeq(s, 1, i - 1) \o SubSeq(s, i + 1, Len(s))

recv_ack(id) ==
    (IF faults > 0
       THEN {[ret |-> -1, frame |-> NoFrame, rest |-> inbox]} ELSE {}) \cup
    (IF Matching(id) = {}
       THEN {[ret |-> 0, frame |-> NoFrame, rest |-> inbox]}
       ELSE {[ret |-> 1, frame |-> inbox[First(Matching(id))],
              rest |-> Without(inbox, First(Matching(id)))]})

\* The clock after a call of recv_ack that returned ret: the call waits one
\* read cycle for a frame and returns at once when there is one (or on error).
After(ret) ==
    IF ret = 0 THEN (IF now + ReadCycle <= MaxTime THEN now + ReadCycle ELSE MaxTime)
    ELSE now

----------------------------------------------------------------------------
\* What a handler leaves alone when it returns without touching the link.
Returns(r, base) ==
    /\ resp' = r
    /\ stack' = base
    /\ UNCHANGED <<in_motion, last_cmd_id, stop_called, wire, inbox, devq, nissued,
                   faults>>

\* if (xxx_async(...) == 0) { in_motion = true; last_cmd_id = id; ... begin = now;
\* do { ... } } else { <failed> }: the frame goes out and the wait loop is entered,
\* or the transport refuses the frame.  link is <<frames on the wire, commands the
\* gripper holds>> at the moment of the send.
Issue(kind, width, speed, flag, link, failed, base) ==
    \/ /\ wire' = Append(link[1], [id |-> CmdId(kind), seq |-> nissued + 1,
                                   width |-> width, speed |-> speed, flag |-> flag])
       /\ devq' = link[2]
       /\ in_motion' = TRUE
       /\ last_cmd_id' = LastCmdId(kind)
       /\ nissued' = nissued + 1
       /\ stack' = Append(base, Act(kind, AwaitId(kind), nissued + 1, "recv"))
       /\ UNCHANGED <<stop_called, inbox, resp, faults>>
    \/ /\ faults > 0
       /\ faults' = faults - 1
       /\ resp' = failed
       /\ stack' = base
       /\ wire' = link[1]
       /\ devq' = link[2]
       /\ UNCHANGED <<in_motion, last_cmd_id, stop_called, inbox, nissued>>

Busy(kind) == Reply(kind, "E_ALREADY_RUNNING", kind # "home")

\* Mutant: the lower limit is not checked.
WidthRejected_m(width) == width > g_size

\* req.width < 0.0 || req.width > g_size
WidthRejected(width) == width < 0 \/ width > g_size

\* Mutant: the driver clamps the speed to the envelope.
SpeedArg_m(speed) == IF speed > 420 THEN 420 ELSE IF speed < 0 THEN 0 ELSE speed

\* The speed the handler passes on to the *_async call.
SpeedArg(speed) == speed

\* moveSrv, graspSrv and releaseSrv up to the wait loop.
AbsoluteSrv(kind, req, base) ==
    IF in_motion
      THEN Returns(Busy(kind), base)
      ELSE IF WidthRejected(req.width)
        THEN Returns(Reply(kind, "E_RANGE_ERROR", FALSE), base)
        ELSE Issue(kind, req.width, SpeedArg(req.speed), FALSE, <<wire, devq>>,
                   Reply(kind, "255", TRUE), base)

moveSrv(req, base) == AbsoluteSrv("move", req, base)

graspSrv(req, base) == AbsoluteSrv("grasp", req, base)

releaseSrv(req, base) == AbsoluteSrv("release", req, base)

\* nextWidth of incrementSrv
NextWidth(direction, currentWidth, increment) ==
    IF direction = "open"
      THEN (IF currentWidth + increment >= g_size
              THEN g_size ELSE currentWidth + increment)
      ELSE (IF currentWidth - increment <= GRIPPER_MIN_OPEN
              THEN GRIPPER_MIN_OPEN ELSE currentWidth - increment)

\* Mutant: the open limit itself is not taken as the limit.
IncrSpeed_m(direction, nextWidth) ==
    IF direction = "open"
      THEN (IF nextWidth > g_size THEN 1 ELSE 20)
      ELSE (IF nextWidth <= GRIPPER_MIN_OPEN THEN 1 ELSE 20)

\* speed of incrementSrv
IncrSpeed(direction, nextWidth) ==
    IF direction = "open"
      THEN (IF nextWidth >= g_size THEN 1 ELSE 20)
      ELSE (IF nextWidth <= GRIPPER_MIN_OPEN THEN 1 ELSE 20)

\* Openings getOpening() may report.
Openings == {0, 5, g_size - 2, g_size}

\* incrementSrv up to the wait loop.  getOpening() is a round trip, so the
\* gripper has taken every frame sent before it.
incrementSrv(req, base) ==
    IF in_motion
      THEN Returns(Busy("incr"), base)
      ELSE IF req.direction \notin {"open", "close"}
        THEN Returns(Reply("incr", "none", TRUE), base)
        ELSE \E currentWidth \in Openings :
               LET nextWidth == NextWidth(req.direction, currentWidth, req.increment)
               IN  Issue("incr", nextWidth, IncrSpeed(req.direction, nextWidth), TRUE,
                         <<<<>>, Accepted(devq, wire)>>, Reply("incr", "255", TRUE),
                         base)

\* homingSrv up to the wait loop.
homingSrv(req, base) ==
    IF in_motion
      THEN Returns(Busy("home"), base)
      ELSE Issue("home", 0, 0, FALSE, <<wire, devq>>, Reply("home", "none", TRUE), base)

\* stop(ignore_response): a Stop frame goes to the gripper, which aborts what it
\* is executing; the answer to the Stop itself is awaited unless it is ignored.
stop(ignore_response) ==
    /\ devq' = AbortAll(Accepted(devq, wire))
    /\ wire' = <<>>
    /\ inbox' = IF ignore_response
                  THEN Append(inbox, [id |-> ID_STOP, status |-> "E_SUCCESS", seq |-> 0])
                  ELSE inbox

\* stopSrv up to its wait loop.
stopSrv(req, base) ==
    IF in_motion
      THEN /\ stop(last_cmd_id = ID_HOME)
           /\ stack' = Append(base, Act("stop", last_cmd_id, 0, "drain"))
           /\ UNCHANGED <<in_motion, last_cmd_id, stop_called, resp, nissued, faults>>
      ELSE /\ stop(FALSE)
           /\ resp' = Reply("stop", "none", TRUE)
           /\ stack' = base
           /\ UNCHANGED <<in_motion, last_cmd_id, stop_called, nissued, faults>>

\* The service callback of a request.
Handle(req, base) ==
    \/ req.kind = "move" /\ moveSrv(req, base)
    \/ req.kind = "grasp" /\ graspSrv(req, base)
    \/ req.kind = "release" /\ releaseSrv(req, base)
    \/ req.kind = "incr" /\ incrementSrv(req, base)
    \/ req.kind = "home" /\ homingSrv(req, base)
    \/ req.kind = "stop" /\ stopSrv(req, base)

----------------------------------------------------------------------------
\* Operating modes and what main() sets up for them
NoModes == [script |-> FALSE, periodic |-> FALSE, polling |-> FALSE]

\* Mutant: only the name "polling" selects polling.
ModeFlags_m(com_mode) ==
    IF com_mode = "script" THEN [NoModes EXCEPT !.script = TRUE]
    ELSE IF com_mode = "auto_update" THEN [NoModes EXCEPT !.periodic = TRUE]
    ELSE IF com_mode = "polling" THEN [NoModes EXCEPT !.polling = TRUE]
    ELSE NoModes

\* if (com_mode == "script") ... else if (com_mode == "auto_update") ... else polling
ModeFlags(com_mode) ==
    IF com_mode = "script" THEN [NoModes EXCEPT !.script = TRUE]
    ELSE IF com_mode = "auto_update" THEN [NoModes EXCEPT !.periodic = TRUE]
    ELSE [NoModes EXCEPT !.polling = TRUE]

\* com_mode after the configuration: an unrecognized mode is renamed "polling"
ComMode(com_mode) ==
    IF com_mode \in {"script", "auto_update"} THEN com_mode ELSE "polling"

\* if (g_mode_script || g_mode_polling) advertiseService(...)
ServicesFor(m) == m.script \/ m.polling

\* if (g_mode_polling || g_mode_script) tmr = nh.createTimer(...)
TimerFor(m) == m.polling \/ m.script

\* Mutant: the reader thread is started in every mode.
ThreadFor_m(m) == TRUE

\* if (g_mode_periodic) th = std::thread(read_thread, ...)
ThreadFor(m) == m.periodic

\* What msg_receive left: its return value, msg.len, msg.id, the status and
\* the value in msg.data.
Msg(res, len, id, status, val) ==
    [res |-> res, len |-> len, id |-> id, status |-> status, val |-> val]

\* msg.id = 0; msg.data = 0; msg.len = 0
NoMsg == Msg(0, 0, 0, "E_SUCCESS", 0)

\* read_thread before it is started: gripper_response info; pub_state = false
NoReader == [pc |-> "none", position |-> 0, speed |-> 0, f_motor |-> 0,
             pub_state |-> FALSE, ismoving |-> FALSE, msg |-> NoMsg]

\* float g_goal_position = NAN: no goal is cached.
NAN == -1

\* The frames position_cb writes: a Stop frame, and a Move frame to a width at
\* a speed.
StopFrame == [id |-> ID_STOP, width |-> 0, speed |-> 0]

MoveFrame(width, speed) == [id |-> ID_MOVE, width |-> width, speed |-> speed]

\* float g_goal_position = NAN, ..., g_speed = 10.0; nothing sent.
NoGoal == [g_goal_position |-> NAN, g_speed |-> 10, sent |-> <<>>]

\* Nothing published, nothing polled.  moving counts the messages of the
\* moving topic, ismoving is the data of the last one.
NoPubs == [state |-> 0, moving |-> 0, ismoving |-> FALSE, trips |-> 0, position |-> 0,
           ticks |-> 0]

----------------------------------------------------------------------------
\* ros::spin(): the next callback of the queue runs on the idle primary context.
Dispatch ==
    /\ ~exited
    /\ stack = <<>>
    /\ queue # <<>>
    /\ Handle(Head(queue), <<>>)
    /\ queue' = Tail(queue)
    /\ UNCHANGED <<g_size, now, exited, nreq>>
    /\ UNCHANGED ext

\* ros::spinOnce() inside a wait loop: a callback that was queued when
\* spinOnce was entered runs inside the waiting handler.
SpinDispatch ==
    /\ ~exited
    /\ stack # <<>>
    /\ Top.pc = "spin"
    /\ Top.todo > 0
    /\ Handle(Head(queue), SetTop([Top EXCEPT !.todo = @ - 1]))
    /\ queue' = Tail(queue)
    /\ UNCHANGED <<g_size, now, exited, nreq>>
    /\ UNCHANGED ext

\* ros::spinOnce() returns.
SpinDone ==
    /\ ~exited
    /\ stack # <<>>
    /\ Top.pc = "spin"
    /\ Top.todo = 0
    /\ stack' = SetTop([Top EXCEPT !.pc = "check"])
    /\ UNCHANGED <<g_size, in_motion, last_cmd_id, stop_called, queue, wire, inbox,
                   devq, now, resp, exited, nissued, faults, nreq>>
    /\ UNCHANGED ext

\* msg_available = recv_ack(id, &status) of a motion handler's wait loop.
\* homingSrv does not call ros::spinOnce().
WaitRecv ==
    /\ ~exited
    /\ stack # <<>>
    /\ Top.pc = "recv"
    /\ \E o \in recv_ack(Top.id) :
          /\ inbox' = o.rest
          /\ faults' = IF o.ret = -1 THEN faults - 1 ELSE faults
          /\ now' = After(o.ret)
          /\ stack' = SetTop([Top EXCEPT
                !.msg_available = o.ret,
                !.status = IF o.ret = 1 THEN o.frame ELSE @,
                !.pc = IF Top.kind = "home" THEN "check" ELSE "spin",
                !.todo = IF Top.kind = "home" THEN 0 ELSE Len(queue)])
    /\ UNCHANGED <<g_size, in_motion, last_cmd_id, stop_called, queue, wire,
                   devq, resp, exited, nissued, nreq>>
    /\ UNCHANGED ext

\* if (stop_called) { res.error = E_CMD_ABORTED; stop_called = false;
\* in_motion = false; return true; }
Cancelled == Top.kind # "home" /\ stop_called

\* Mutant: the cancel path leaves stop_called set.
Abort_m ==
    /\ ~exited
    /\ stack # <<>>
    /\ Top.pc = "check"
    /\ Cancelled
    /\ resp' = Reply(Top.kind, "E_CMD_ABORTED", TRUE)
    /\ in_motion' = FALSE
    /\ stack' = Rest
    /\ UNCHANGED <<g_size, last_cmd_id, stop_called, queue, wire, inbox, devq, now,
                   exited, nissued, faults, nreq>>
    /\ UNCHANGED ext

Abort ==
    /\ ~exited
    /\ stack # <<>>
    /\ Top.pc = "check"
    /\ Cancelled
    /\ resp' = Reply(Top.kind, "E_CMD_ABORTED", TRUE)
    /\ stop_called' = FALSE
    /\ in_motion' = FALSE
    /\ stack' = Rest
    /\ UNCHANGED <<g_size, last_cmd_id, queue, wire, inbox, devq, now, exited,
                   nissued, faults, nreq>>
    /\ UNCHANGED ext

\* (ros::Time::now() - begin).toSec() > timeout_commands
TimedOut(begin) == now - begin > timeout_commands

\* quit("Failed to read data from TCP socket")
Quit ==
    /\ ~exited
    /\ stack # <<>>
    /\ Top.pc = "check"
    /\ ~Cancelled
    /\ TimedOut(Top.begin)
    /\ exited' = TRUE
    /\ UNCHANGED <<g_size, in_motion, last_cmd_id, stop_called, stack, queue, wire,
                   inbox, devq, now, resp, nissued, faults, nreq>>
    /\ UNCHANGED ext

\* Mutant: an E_CMD_PENDING frame ends the loop.
LoopAgain_m(msg_available, status) == msg_available = 0

\* while (msg_available == 0 || (msg_available == 1 && status == E_CMD_PENDING))
LoopAgain(msg_available, status) ==
    msg_available = 0 \/ (msg_available = 1 /\ status = "E_CMD_PENDING")

Loop ==
    /\ ~exited
    /\ stack # <<>>
    /\ Top.pc = "check"
    /\ ~Cancelled
    /\ ~TimedOut(Top.begin)
    /\ stack' = SetTop([Top EXCEPT !.pc =
            IF LoopAgain(Top.msg_available, Top.status.status) THEN "recv" ELSE "settle"])
    /\ UNCHANGED <<g_size, in_motion, last_cmd_id, stop_called, queue, wire, inbox,
                   devq, now, resp, exited, nissued, faults, nreq>>
    /\ UNCHANGED ext

\* Mutant: the status is returned whatever recv_ack returned.
Result_m(a) ==
    IF a.kind = "home"
      THEN Reply("home", "none", a.msg_available = 1 /\ a.status.status = "E_SUCCESS")
      ELSE Reply(a.kind, a.status.status, TRUE)

\* What the handler returns after its loop has ended.
Result(a) ==
    IF a.kind = "home"
      THEN Reply("home", "none", a.msg_available = 1 /\ a.status.status = "E_SUCCESS")
      ELSE Reply(a.kind, IF a.msg_available = -1 THEN "255" ELSE a.status.status, TRUE)

\* ros::Duration(0.1).sleep(): the settle delay after the loop has ended.  The
\* delay is below the resolution of now; that it has elapsed is the handler's
\* position "slept".
Sleep ==
    /\ ~exited
    /\ stack # <<>>
    /\ Top.pc = "settle"
    /\ stack' = SetTop([Top EXCEPT !.pc = "slept"])
    /\ UNCHANGED <<g_size, in_motion, last_cmd_id, stop_called, queue, wire, inbox,
                   devq, now, resp, exited, nissued, faults, nreq>>
    /\ UNCHANGED ext

\* in_motion = false; res.error = ...; return
Settle ==
    /\ ~exited
    /\ stack # <<>>
    /\ Top.pc = "slept"
    /\ in_motion' = FALSE
    /\ resp' = Result(Top)
    /\ stack' = Rest
    /\ UNCHANGED <<g_size, last_cmd_id, stop_called, queue, wire, inbox, devq, now,
                   exited, nissued, faults, nreq>>
    /\ UNCHANGED ext

\* while (recv_ack(last_cmd_id, &status) == 0); stop_called = true; return true;
DrainRecv ==
    /\ ~exited
    /\ stack # <<>>
    /\ Top.pc = "drain"
    /\ \E o \in recv_ack(last_cmd_id) :
          /\ inbox' = o.rest
          /\ faults' = IF o.ret = -1 THEN faults - 1 ELSE faults
          /\ now' = After(o.ret)
          /\ IF o.ret = 0
               THEN UNCHANGED <<stack, stop_called, resp>>
               ELSE /\ stop_called' = TRUE
                    /\ resp' = Reply("stop", "none", TRUE)
                    /\ stack' = Rest
    /\ UNCHANGED <<g_size, in_motion, last_cmd_id, queue, wire, devq, exited,
                   nissued, nreq>>
    /\ UNCHANGED ext

----------------------------------------------------------------------------
\* The clients of the services
ProtoReqs ==
    {Req(k, 50, 20, "", 0) : k \in AbsKinds} \cup
    {Req("incr", 0, 0, "open", 5), Req("home", 0, 0, "", 0), Req("stop", 0, 0, "", 0)}

Request(R) ==
    /\ ~exited
    /\ nreq < MaxReqs
    /\ Len(queue) < MaxQueue
    /\ \E r \in R : queue' = Append(queue, r)
    /\ nreq' = nreq + 1
    /\ UNCHANGED <<g_size, in_motion, last_cmd_id, stop_called, stack, wire, inbox,
                   devq, now, resp, exited, nissued, faults>>
    /\ UNCHANGED ext

\* The node in mode com after its startup: main() is in ros::spin().
Serving(com) ==
    /\ modes = ModeFlags(com)
    /\ main = [pc |-> "spin", com |-> com, param |-> com, protocol |-> "serial",
               res_con |-> 0,
               services |-> ServicesFor(ModeFlags(com)),
               timer |-> TimerFor(ModeFlags(com)),
               sent |-> {"ack", "home"}, shutdown |-> FALSE]
    /\ rd = NoReader
    /\ cb = "idle"
    /\ pubs = NoPubs
    /\ goal = NoGoal

\* in_motion = false; stop_called = false; ... g_size = size;
Init ==
    /\ g_size = 210
    /\ in_motion = FALSE
    /\ last_cmd_id = 0
    /\ stop_called = FALSE
    /\ stack = <<>>
    /\ queue = <<>>
    /\ wire = <<>>
    /\ inbox = <<>>
    /\ devq = <<>>
    /\ now = 0
    /\ resp = NoResp
    /\ exited = FALSE
    /\ nissued = 0
    /\ faults = 0
    /\ nreq = 0
    /\ Serving("polling")

Next ==
    \/ Request(ProtoReqs)
    \/ Dispatch
    \/ SpinDispatch
    \/ SpinDone
    \/ WaitRecv
    \/ Abort
    \/ Quit
    \/ Loop
    \/ Sleep
    \/ Settle
    \/ DrainRecv
    \/ DevAccept
    \/ DevPending
    \/ DevDone

\* Concurrent clients on a reliable link.
Spec == Init /\ [][Next]_vars

\* Targets, speeds, directions and increments a client may ask for.
Widths == {-1, 0, 50, g_size, g_size + 1}
Speeds == {-1, 0, 20, 500}
Directions == {"open", "close", "hold"}
Increments == {-10, 0, 5, 300}

CallReqs ==
    {Req(k, w, s, "", 0) : k \in AbsKinds, w \in Widths, s \in Speeds} \cup
    {Req("incr", 0, 0, d, i) : d \in Directions, i \in Increments} \cup
    {Req("home", 0, 0, "", 0), Req("stop", 0, 0, "", 0)}

\* A client that makes its calls one after the other.
Call ==
    /\ stack = <<>>
    /\ queue = <<>>
    /\ Request(CallReqs)

InitCalls ==
    /\ g_size \in {110, 210}
    /\ in_motion = FALSE
    /\ last_cmd_id = 0
    /\ stop_called = FALSE
    /\ stack = <<>>
    /\ queue = <<>>
    /\ wire = <<>>
    /\ inbox = <<>>
    /\ devq = <<>>
    /\ now = 0
    /\ resp = NoResp
    /\ exited = FALSE
    /\ nissued = 0
    /\ faults = 0
    /\ nreq = 0
    /\ Serving("polling")

NextCalls ==
    \/ Call
    \/ Dispatch
    \/ SpinDone
    \/ WaitRecv
    \/ Quit
    \/ Loop
    \/ Sleep
    \/ Settle
    \/ DevAccept
    \/ DevPending
    \/ DevDone

\* One sequential client, both size classes, a reliable link.
SpecCalls == InitCalls /\ [][NextCalls]_vars

\* A client that makes its calls one after the other, with plain arguments.
PlainCall ==
    /\ stack = <<>>
    /\ queue = <<>>
    /\ nreq < MaxCalls
    /\ Request(ProtoReqs)

InitFaults ==
    /\ g_size = 210
    /\ in_motion = FALSE
    /\ last_cmd_id = 0
    /\ stop_called = FALSE
    /\ stack = <<>>
    /\ queue = <<>>
    /\ wire = <<>>
    /\ inbox = <<>>
    /\ devq = <<>>
    /\ now = 0
    /\ resp = NoResp
    /\ exited = FALSE
    /\ nissued = 0
    /\ faults = MaxFaults
    /\ nreq = 0
    /\ Serving("polling")

NextFaults ==
    \/ PlainCall
    \/ Dispatch
    \/ SpinDone
    \/ WaitRecv
    \/ Quit
    \/ Loop
    \/ Sleep
    \/ Settle
    \/ DevAccept
    \/ DevPending
    \/ DevDone

\* One sequential client on a link whose sends and receives may fail.
SpecFaults == InitFaults /\ [][NextFaults]_vars

----------------------------------------------------------------------------
\* timer_cb, a callback of the same callback queue as the services

\* Mutant: the tick polls whether or not a motion command is outstanding.
TickPolls_m(m, moving) == m.polling

\* if (g_mode_polling && !in_motion)
TickPolls(m, moving) == m.polling /\ ~moving

\* The body of timer_cb.  In polling mode: systemState(), which may fail, then
\* getOpening(), getAcceleration(), getForce(), then the publication.  In
\* script mode: one script_measure_move(), which may fail, then the publication.
timer_cb ==
    IF TickPolls(modes, in_motion)
      THEN /\ \/ pubs' = [pubs EXCEPT !.ticks = @ + 1, !.trips = @ + 1]
              \/ \E opening \in Openings :
                    pubs' = [pubs EXCEPT !.ticks = @ + 1, !.trips = @ + 4,
                                         !.state = @ + 1, !.position = opening]
           /\ UNCHANGED goal
      ELSE IF modes.script
        THEN /\ \/ pubs' = [pubs EXCEPT !.ticks = @ + 1, !.trips = @ + 1]
                \/ \E opening \in Openings :
                      pubs' = [pubs EXCEPT !.ticks = @ + 1, !.trips = @ + 1,
                                           !.state = @ + 1, !.position = opening]
             /\ goal' = [goal EXCEPT !.g_goal_position = NAN]
        ELSE /\ pubs' = [pubs EXCEPT !.ticks = @ + 1]
             /\ UNCHANGED goal

\* ros::spin() runs the timer callback.
TickDispatch ==
    /\ ~exited
    /\ main.timer
    /\ stack = <<>>
    /\ queue # <<>>
    /\ Head(queue).kind = "tick"
    /\ timer_cb
    /\ queue' = Tail(queue)
    /\ UNCHANGED <<g_size, in_motion, last_cmd_id, stop_called, stack, wire, inbox,
                   devq, now, resp, exited, nissued, faults, nreq, modes, main, rd, cb>>

\* ros::spinOnce() inside a wait loop runs the timer callback.
SpinTick ==
    /\ ~exited
    /\ main.timer
    /\ stack # <<>>
    /\ Top.pc = "spin"
    /\ Top.todo > 0
    /\ Head(queue).kind = "tick"
    /\ timer_cb
    /\ stack' = SetTop([Top EXCEPT !.todo = @ - 1])
    /\ queue' = Tail(queue)
    /\ UNCHANGED <<g_size, in_motion, last_cmd_id, stop_called, wire, inbox,
                   devq, now, resp, exited, nissued, faults, nreq, modes, main, rd, cb>>

\* Clients and the timer of a node in polling mode.
PollReqs == {Req("move", 50, 20, "", 0), Req("stop", 0, 0, "", 0), Req("tick", 0, 0, "", 0)}

InitPoll ==
    /\ g_size = 210
    /\ in_motion = FALSE
    /\ last_cmd_id = 0
    /\ stop_called = FALSE
    /\ stack = <<>>
    /\ queue = <<>>
    /\ wire = <<>>
    /\ inbox = <<>>
    /\ devq = <<>>
    /\ now = 0
    /\ resp = NoResp
    /\ exited = FALSE
    /\ nissued = 0
    /\ faults = 0
    /\ nreq = 0
    /\ Serving("polling")

NextPoll ==
    \/ Request(PollReqs)
    \/ Dispatch
    \/ TickDispatch
    \/ SpinDispatch
    \/ SpinTick
    \/ SpinDone
    \/ WaitRecv
    \/ Abort
    \/ Quit
    \/ Loop
    \/ Sleep
    \/ Settle
    \/ DrainRecv
    \/ DevAccept
    \/ DevPending
    \/ DevDone

\* Polling mode: the services and the telemetry timer on one callback queue.
SpecPoll == InitPoll /\ [][NextPoll]_vars

----------------------------------------------------------------------------
\* main(): startup and shutdown

\* Values of the parameters com_mode, protocol and grasping_force.
ComModes == {"script", "auto_update", "polling", "", "fast"}
Protocols == {"serial", "udp", "tcp", "can"}
Forces == {0, 40}

\* res_con after the connection attempt: -1 unless a known protocol connected.
ResCon(protocol, connected) ==
    IF protocol \in {"serial", "udp", "tcp"} /\ connected THEN 0 ELSE -1

\* Mutant: the result of the connection attempt is not looked at.
ConnectOk_m(res_con) == TRUE

\* if (res_con == 0)
ConnectOk(res_con) == res_con = 0

\* if (com_mode == "script") ... else { com_mode = "polling"; g_mode_polling = true; }
Configure ==
    /\ main.pc = "config"
    /\ modes' = ModeFlags(main.com)
    /\ main' = [main EXCEPT !.pc = "connect", !.com = ComMode(main.com)]
    /\ UNCHANGED <<core, rd, cb, pubs, goal>>

\* res_con = cmd_connect_serial / cmd_connect_udp / cmd_connect_tcp, or "UNKNOWN protocol!"
Connect ==
    /\ main.pc = "connect"
    /\ \E connected \in BOOLEAN :
          main' = [main EXCEPT !.pc = "check",
                               !.res_con = ResCon(main.protocol, connected)]
    /\ UNCHANGED <<core, modes, rd, cb, pubs, goal>>

\* Connection established: services, subscribers and publishers are set up.
Connected ==
    /\ main.pc = "check"
    /\ ConnectOk(main.res_con)
    /\ main' = [main EXCEPT !.pc = "ack", !.services = ServicesFor(modes)]
    /\ UNCHANGED <<core, modes, rd, cb, pubs, goal>>

\* "Unable to connect, please check the port and address used."
ConnectFailed ==
    /\ main.pc = "check"
    /\ ~ConnectOk(main.res_con)
    /\ main' = [main EXCEPT !.pc = "exit"]
    /\ UNCHANGED <<core, modes, rd, cb, pubs, goal>>

\* ack_fault(): a round trip of the primary context.
AckFault ==
    /\ main.pc = "ack"
    /\ main' = [main EXCEPT !.pc = "home", !.sent = @ \cup {"ack"}]
    /\ UNCHANGED <<core, modes, rd, cb, pubs, goal>>

\* homing(): a round trip of the primary context.
Homing ==
    /\ main.pc = "home"
    /\ main' = [main EXCEPT !.pc = "force", !.sent = @ \cup {"home"}]
    /\ UNCHANGED <<core, modes, rd, cb, pubs, goal>>

\* if (grasping_force > 0.0) setGraspingForceLimit(grasping_force)
ForceLimit ==
    /\ main.pc = "force"
    /\ \E grasping_force \in Forces :
          main' = [main EXCEPT !.pc = "start",
                               !.sent = IF grasping_force > 0 THEN @ \cup {"force"} ELSE @]
    /\ UNCHANGED <<core, modes, rd, cb, pubs, goal>>

\* The timer is created and the reader thread is started, each in its modes.
StartTimerThread ==
    /\ main.pc = "start"
    /\ main' = [main EXCEPT !.pc = "sleep", !.timer = TimerFor(modes)]
    /\ rd' = IF ThreadFor(modes) THEN [NoReader EXCEPT !.pc = "req1"] ELSE rd
    /\ UNCHANGED <<core, modes, cb, pubs, goal>>

\* The reader thread asks for the automatic updates or cancels them.
ReaderWrites == rd.pc \in {"req1", "req2", "req3", "off1", "off2", "off3"}

\* sleep(5); ros::spin().  The five seconds are taken to be enough for the
\* three requests the reader thread starts with.
SpinStart ==
    /\ main.pc = "sleep"
    /\ rd.pc \notin {"req1", "req2", "req3"}
    /\ main' = [main EXCEPT !.pc = "spin"]
    /\ UNCHANGED <<core, modes, rd, cb, pubs, goal>>

\* sigint_handler: the mode flags are cleared and ros::shutdown() is called.
Sigint ==
    /\ main.pc # "done"
    /\ ~main.shutdown
    /\ modes' = NoModes
    /\ main' = [main EXCEPT !.shutdown = TRUE]
    /\ UNCHANGED <<core, rd, cb, pubs, goal>>

\* ros::spin() returns after ros::shutdown(), when no callback is running.  The
\* block that owns std::thread th is left: a thread that was started is still
\* joinable, so its destructor calls std::terminate().
SpinReturn ==
    /\ main.pc = "spin"
    /\ main.shutdown
    /\ cb = "idle"
    /\ stack = <<>>
    /\ main' = [main EXCEPT !.pc = IF rd.pc = "none" THEN "exit" ELSE "done"]
    /\ UNCHANGED <<core, modes, rd, cb, pubs, goal>>

\* "Driver was stopped."; the mode flags are cleared; cmd_disconnect(); return 0
Exit ==
    /\ main.pc = "exit"
    /\ modes' = NoModes
    /\ main' = [main EXCEPT !.pc = "done"]
    /\ UNCHANGED <<core, rd, cb, pubs, goal>>

----------------------------------------------------------------------------
\* position_cb in auto_update mode, on the primary context

\* if (g_mode_script || g_mode_periodic) sub_position = nh.subscribe(...)
SubscriberFor(m) == m.script \/ m.periodic

\* The goals and speeds of the goal_position messages.
Goals == {20, 30}

GoalSpeeds == {5}

\* g_speed = msg->speed; g_goal_position = msg->pos;
CbStart ==
    /\ main.pc = "spin"
    /\ ~main.shutdown
    /\ SubscriberFor(ModeFlags(main.com))
    /\ stack = <<>>
    /\ cb = "idle"
    /\ cb' = "entered"
    /\ \E pos \in Goals, speed \in GoalSpeeds :
          goal' = [g_goal_position |-> pos, g_speed |-> speed, sent |-> <<>>]
    /\ UNCHANGED <<core, modes, main, rd, pubs>>

\* Mutant: the goal is also sent at once in script mode.
Streams_m(m) == m.periodic \/ m.script

\* if (g_mode_periodic)
Streams(m) == m.periodic

CbCheck ==
    /\ cb = "entered"
    /\ cb' = IF Streams(modes) THEN "stop" ELSE "idle"
    /\ UNCHANGED <<core, modes, main, rd, pubs, goal>>

\* stop(true): the Stop frame is written, its response is left to the reader.
CbStop ==
    /\ cb = "stop"
    /\ cb' = "move"
    /\ goal' = [goal EXCEPT !.sent = Append(@, StopFrame)]
    /\ UNCHANGED <<core, modes, main, rd, pubs>>

\* move(g_goal_position, g_speed, false, true): written, response left to the reader.
CbMove ==
    /\ cb = "move"
    /\ cb' = "idle"
    /\ goal' = [goal EXCEPT !.sent = Append(@, MoveFrame(goal.g_goal_position, goal.g_speed))]
    /\ UNCHANGED <<core, modes, main, rd, pubs>>

\* ros::spin() runs timer_cb.
MainTick ==
    /\ main.pc = "spin"
    /\ main.timer
    /\ stack = <<>>
    /\ cb = "idle"
    /\ pubs.ticks < MaxPubs
    /\ timer_cb
    /\ UNCHANGED <<core, modes, main, rd, cb>>

\* The primary context is in a call that receives from the link: the round
\* trips of the startup, or a service handler.  stop(true) and move(.., true)
\* of position_cb ignore the response.
PrimaryReads == main.pc \in {"ack", "home", "force"} \/ stack # <<>>

\* The primary context is writing a frame of position_cb.
PrimaryWrites == cb \in {"stop", "move"}

----------------------------------------------------------------------------
\* read_thread

\* Frames msg_receive may hand to the reader, res being its return value.
PushFrames ==
    {Msg(0, 6, id, "E_SUCCESS", v) :
        id \in {ID_GET_OPENING, ID_GET_SPEED, ID_GET_FORCE}, v \in {7, 42}} \cup
    {Msg(0, 2, ID_MOVE, st, 0) :
        st \in {"E_SUCCESS", "E_AXIS_BLOCKED", "E_CMD_PENDING", "E_ALREADY_RUNNING",
                "E_CMD_ABORTED", "E_TIMEOUT"}} \cup
    {Msg(0, 6, ID_GET_OPENING, "E_CMD_PENDING", 42),
     Msg(0, 2, ID_GET_OPENING, "E_SUCCESS", 42),
     Msg(0, 2, ID_STOP, "E_SUCCESS", 0),
     Msg(0, 2, 99, "E_SUCCESS", 0),
     Msg(-1, 6, ID_GET_OPENING, "E_SUCCESS", 42),
     Msg(0, 0, ID_GET_OPENING, "E_SUCCESS", 42)}

\* Mutant: the length of the frame is not checked.
Failed_m(f) == f.res < 0

\* if (res < 0 || msg.len < 2) continue
Failed(f) == f.res < 0 \/ f.len < 2

\* if (msg.id >= 0x43 && msg.id <= 0x45 && msg.len == 6)
IsValue(f) == f.id >= ID_GET_OPENING /\ f.id <= ID_GET_FORCE /\ f.len = 6

\* The iteration ends at a continue.
Skipped(f) == Failed(f) \/ (IsValue(f) /\ f.status # "E_SUCCESS")

\* float val = 0.0; ... val = convert(&msg.data[2])
Val(f) == IF IsValue(f) THEN f.val ELSE 0

\* Mutant: E_ALREADY_RUNNING is treated as any other error status.
Motion_m(f) ==
    IF f.id # ID_MOVE THEN -1
    ELSE IF f.status = "E_CMD_PENDING" THEN 1
    ELSE 0

\* int motion = -1; case 0x21: ...
Motion(f) ==
    IF f.id # ID_MOVE THEN -1
    ELSE IF f.status = "E_CMD_PENDING" THEN 1
    ELSE IF f.status = "E_ALREADY_RUNNING" THEN -1
    ELSE 0

\* switch (msg.id): info and pub_state after the switch
Switched(r, f) ==
    IF f.id = ID_GET_OPENING THEN [r EXCEPT !.position = Val(f), !.pub_state = TRUE]
    ELSE IF f.id = ID_GET_SPEED THEN [r EXCEPT !.speed = Val(f)]
    ELSE IF f.id = ID_GET_FORCE THEN [r EXCEPT !.f_motor = Val(f)]
    ELSE r

\* getOpening(interval_ms); getSpeed(interval_ms); getForce(interval_ms)
RdRequest ==
    /\ main.pc # "done"
    /\ rd.pc \in {"req1", "req2", "req3"}
    /\ rd' = [rd EXCEPT !.pc = CASE rd.pc = "req1" -> "req2"
                                  [] rd.pc = "req2" -> "req3"
                                  [] rd.pc = "req3" -> "loop"]
    /\ UNCHANGED <<core, modes, main, cb, pubs, goal>>

\* One iteration of while (g_mode_periodic) { ... }
RdRecv ==
    /\ main.pc # "done"
    /\ rd.pc = "loop"
    /\ modes.periodic
    /\ pubs.state < MaxPubs
    /\ pubs.moving < MaxPubs
    /\ \E f \in PushFrames :
          IF Skipped(f)
            THEN rd' = [rd EXCEPT !.msg = f] /\ UNCHANGED pubs
            ELSE LET r == Switched(rd, f)
                     m == Motion(f)
                 IN  /\ rd' = [r EXCEPT !.msg = f, !.pub_state = FALSE,
                                        !.ismoving = IF m \in {0, 1} THEN m = 1 ELSE @]
                     /\ pubs' = [pubs EXCEPT
                           !.moving = IF m \in {0, 1} THEN @ + 1 ELSE @,
                           !.ismoving = IF m \in {0, 1} THEN m = 1 ELSE @,
                           !.state = IF r.pub_state THEN @ + 1 ELSE @,
                           !.position = IF r.pub_state THEN r.position ELSE @]
    /\ UNCHANGED <<core, modes, main, cb, goal>>

\* The loop ends when g_mode_periodic is found cleared.
RdLeave ==
    /\ main.pc # "done"
    /\ rd.pc = "loop"
    /\ ~modes.periodic
    /\ rd' = [rd EXCEPT !.pc = "off1"]
    /\ UNCHANGED <<core, modes, main, cb, pubs, goal>>

\* getOpening(0); getSpeed(0); getForce(0)
RdCancel ==
    /\ main.pc # "done"
    /\ rd.pc \in {"off1", "off2", "off3"}
    /\ rd' = [rd EXCEPT !.pc = CASE rd.pc = "off1" -> "off2"
                                  [] rd.pc = "off2" -> "off3"
                                  [] rd.pc = "off3" -> "ended"]
    /\ UNCHANGED <<core, modes, main, cb, pubs, goal>>

----------------------------------------------------------------------------
\* The reader thread is running: it is in msg_receive or in one of its requests.
ReaderReads == rd.pc \notin {"none", "ended"}

\* The whole run of the node, from the start of main() to its end.
InitMain ==
    /\ g_size = 210
    /\ in_motion = FALSE
    /\ last_cmd_id = 0
    /\ stop_called = FALSE
    /\ stack = <<>>
    /\ queue = <<>>
    /\ wire = <<>>
    /\ inbox = <<>>
    /\ devq = <<>>
    /\ now = 0
    /\ resp = NoResp
    /\ exited = FALSE
    /\ nissued = 0
    /\ faults = 0
    /\ nreq = 0
    /\ modes = NoModes
    /\ \E c \in ComModes, p \in Protocols :
          main = [pc |-> "config", com |-> c, param |-> c, protocol |-> p,
                  res_con |-> -1, services |-> FALSE, timer |-> FALSE, sent |-> {},
                  shutdown |-> FALSE]
    /\ rd = NoReader
    /\ cb = "idle"
    /\ pubs = NoPubs
    /\ goal = NoGoal

NextMain ==
    \/ Configure
    \/ Connect
    \/ Connected
    \/ ConnectFailed
    \/ AckFault
    \/ Homing
    \/ ForceLimit
    \/ StartTimerThread
    \/ SpinStart
    \/ Sigint
    \/ SpinReturn
    \/ Exit
    \/ CbStart
    \/ CbCheck
    \/ CbStop
    \/ CbMove
    \/ MainTick
    \/ RdRequest
    \/ RdRecv
    \/ RdLeave
    \/ RdCancel

SpecMain == InitMain /\ [][NextMain]_vars

----------------------------------------------------------------------------
\* Properties

\* The activations of motion handlers on the call stack.
Waiting == {i \in 1..Len(stack) : stack[i].kind \in MotionKinds}

\* Motion commands the gripper has not yet answered with their terminal frame.
Unanswered == {wire[i].seq : i \in 1..Len(wire)} \cup {devq[i].seq : i \in 1..Len(devq)}

\* Motion commands whose terminal frame the driver has not yet consumed.
Outstanding ==
    Unanswered \cup
    {inbox[i].seq : i \in {j \in 1..Len(inbox) :
                               inbox[j].id # ID_STOP /\ inbox[j].status # "E_CMD_PENDING"}}

\* A callback is taken from the callback queue and run.
Taken == queue # <<>> /\ queue' = Tail(queue)

\* C1 (single-flight): at any time at most one motion command has been issued
\* whose terminal frame the driver has not yet consumed; a request made before
\* that is never accepted, so never sent to the gripper.
C1_SingleFlight == Cardinality(Outstanding) <= 1

\* C2 (cancellation drain): whenever the wait loop of a cancelled command releases
\* the guard in_motion, the terminal frame of that command has been consumed.
C2_CancellationDrain ==
    [][(in_motion /\ stop_called /\ ~in_motion') => Top.seq \notin Outstanding]_vars

\* C3 (no stale response): the frame whose status a motion handler is about to
\* return to its caller was emitted by the gripper for that very command.
C3_NoStaleResponse ==
    \A i \in Waiting :
        (stack[i].pc = "settle" /\ stack[i].msg_available = 1)
            => stack[i].status.seq = stack[i].seq

\* C4 (correlation safety): a motion handler awaits the id of the command it
\* issued, and every frame its wait loop takes carries that id.
C4_CorrelationSafety ==
    \A i \in Waiting :
        /\ stack[i].id = CmdId(stack[i].kind)
        /\ stack[i].msg_available = 1 => stack[i].status.id = CmdId(stack[i].kind)

\* C4 witness: a grasp is about to return the terminal status of a frame it took.
C4_Witness ==
    \E i \in Waiting :
        /\ stack[i].kind = "grasp"
        /\ stack[i].pc = "settle"
        /\ stack[i].msg_available = 1
        /\ stack[i].status.id = ID_GRASP

\* The frame a handler has just put on the wire.
Sent == wire'[Len(wire')]

\* C5 (range validation): move, grasp and release, called with no command
\* outstanding, reject every target outside [0, g_size] with E_RANGE_ERROR,
\* sending nothing and leaving in_motion, last_cmd_id and stop_called alone;
\* a target inside [0, g_size] is never rejected: its frame is handed to the link.
C5_RangeValidation ==
    [][(Taken /\ Head(queue).kind \in AbsKinds /\ ~in_motion) =>
          IF Head(queue).width \in 0..g_size
            THEN \/ in_motion' /\ Sent.width = Head(queue).width
                 \/ resp' = Reply(Head(queue).kind, "255", TRUE) /\ wire' = wire
            ELSE /\ resp' = Reply(Head(queue).kind, "E_RANGE_ERROR", FALSE)
                 /\ wire' = wire
                 /\ devq' = devq
                 /\ stack' = stack
                 /\ in_motion' = in_motion
                 /\ last_cmd_id' = last_cmd_id
                 /\ stop_called' = stop_called]_vars

\* C5 witness: a release was rejected with a range error after an earlier command.
C5_Witness ==
    /\ resp = Reply("release", "E_RANGE_ERROR", FALSE)
    /\ last_cmd_id # 0
    /\ ~in_motion

\* The speed envelope [0.1, 420.0].
InEnvelope(speed) == 10 * speed >= 1 /\ speed <= 420

\* C6 (speed is advisory): move, grasp and release with a target in range and
\* a speed outside the envelope are not rejected; the frame handed to the link
\* carries the caller's speed unchanged.
C6_SpeedAdvisory ==
    [][(/\ Taken
        /\ Head(queue).kind \in AbsKinds
        /\ ~in_motion
        /\ Head(queue).width \in 0..g_size
        /\ ~InEnvelope(Head(queue).speed)) =>
          \/ /\ in_motion'
             /\ Sent.id = CmdId(Head(queue).kind)
             /\ Sent.width = Head(queue).width
             /\ Sent.speed = Head(queue).speed
          \/ resp' = Reply(Head(queue).kind, "255", TRUE) /\ wire' = wire]_vars

\* C6 witness: a grasp frame with speed 500 is on the wire.
C6_Witness ==
    \E i \in 1..Len(wire) : wire[i].id = ID_GRASP /\ wire[i].speed = 500

\* C7 (increment clamp): every target that moveIncrementally sends lies in
\* [0, g_size].
C7_IncrementClamp ==
    \A i \in 1..Len(wire) : wire[i].flag => wire[i].width \in 0..g_size

\* The travel limit of a direction.
Limit(direction) == IF direction = "open" THEN g_size ELSE GRIPPER_MIN_OPEN

\* C8 (increment speed downgrade): moveIncrementally commands speed 1 exactly
\* when the target it sends is the travel limit of the commanded direction,
\* and speed 20 otherwise.
C8_IncrementSpeed ==
    [][(Taken /\ Head(queue).kind = "incr" /\ ~in_motion /\ in_motion') =>
          Sent.speed = IF Sent.width = Limit(Head(queue).direction) THEN 1 ELSE 20]_vars

\* C8 witness: an increment frame at the open limit with the low speed.
C8_Witness ==
    \E i \in 1..Len(wire) :
        wire[i].flag /\ wire[i].width = g_size /\ wire[i].speed = 1

\* C9 (timeout fatality): a motion command the gripper has not answered
\* terminally is never left waiting beyond its deadline plus one read cycle,
\* and quit() is never called before the deadline.
C9_TimeoutFatality ==
    /\ \A i \in Waiting :
           (stack[i].seq \in Unanswered
              /\ now - stack[i].begin > timeout_commands + ReadCycle) => exited
    /\ exited => now - Top.begin > timeout_commands

\* C10 (absolute deadline): begin is set when the command is issued and never
\* again; after an E_CMD_PENDING frame the loop goes on to the next recv_ack
\* unless it was cancelled or is past the deadline; quit() is called only past
\* the deadline counted from issuance.
C10_AbsoluteDeadline ==
    [][/\ \A i \in Waiting :
             /\ i <= Len(stack') => stack'[i].begin = stack[i].begin
             /\ (/\ i = Len(stack)
                 /\ stack[i].pc = "check"
                 /\ stack[i].msg_available = 1
                 /\ stack[i].status.status = "E_CMD_PENDING"
                 /\ ~Cancelled
                 /\ now - stack[i].begin <= timeout_commands
                 /\ stack' # stack) =>
                   (Len(stack') = Len(stack) /\ stack'[i].pc = "recv")
       /\ (Len(stack') = Len(stack) + 1 /\ stack'[Len(stack')].kind \in MotionKinds) =>
             stack'[Len(stack')].begin = now
       /\ (exited' /\ ~exited) => now - Top.begin > timeout_commands]_vars

\* C10 witness: a wait loop that went on after an E_CMD_PENDING frame, with time
\* gone since issuance.
C10_Witness ==
    \E i \in Waiting :
        /\ stack[i].pc = "recv"
        /\ stack[i].msg_available = 1
        /\ stack[i].status.status = "E_CMD_PENDING"
        /\ now > stack[i].begin

\* C11 (settle delay): whenever a motion handler releases the guard in_motion,
\* the settle delay has elapsed since the end of its wait.
C11_SettleDelay ==
    [][(in_motion /\ ~in_motion') => Top.pc = "slept"]_vars

\* A stop request is waiting in the callback queue.
StopQueued == \E k \in 1..Len(queue) : queue[k].kind = "stop"

\* C12 (stop is always permitted and cancels): after every recv_ack of a pending
\* command's wait loop the event pump runs with every callback queued by then,
\* so a stop waiting in the queue is serviced while the command is pending;
\* a serviced stop sends the Stop frame whether or not a command is pending and
\* is never rejected; a command whose stop was serviced returns E_CMD_ABORTED.
C12_StopPermitted ==
    [][/\ (/\ stack # <<>>
           /\ Top.kind \in MotionKinds
           /\ Top.pc = "recv"
           /\ StopQueued
           /\ stack' # stack) =>
             (stack'[Len(stack)].pc = "spin" /\ stack'[Len(stack)].todo = Len(queue))
       /\ (Taken /\ Head(queue).kind = "stop") =>
             /\ devq' = AbortAll(Accepted(devq, wire))
             /\ wire' = <<>>
             /\ resp' # Busy("stop")
       /\ (stack # <<>> /\ Top.kind \in MotionKinds /\ stop_called /\ Len(stack') < Len(stack)) =>
             resp' = Reply(Top.kind, "E_CMD_ABORTED", TRUE)]_vars

\* The reader thread and position_cb are writing at the same time.
WriteOverlap == ReaderWrites /\ PrimaryWrites

\* C13 (only the primary context writes): the reader thread is never writing a
\* frame, and a write of the reader never overlaps a write of the primary context.
C13_OnlyPrimaryWrites == ~ReaderWrites /\ ~WriteOverlap

\* C14 (at most one reader): the primary context and the reader thread never
\* receive at the same time; once the reader thread exists the primary context
\* receives no more; in auto_update mode no service is registered, and in
\* polling and script modes there is no reader thread.
C14_OneReader ==
    /\ ~(PrimaryReads /\ ReaderReads)
    /\ rd.pc # "none" => ~PrimaryReads
    /\ (main.pc # "config" /\ main.com = "auto_update") => ~main.services
    /\ (main.pc # "config" /\ main.com # "auto_update") => rd.pc = "none"

\* C14 witness: the reader is in its loop while position_cb writes its Move.
C14_Witness == rd.pc = "loop" /\ cb = "move" /\ modes.periodic

\* C15 (poll mode serialization): in polling mode a tick that is dispatched
\* while in_motion is set touches neither the link nor the publishers; a tick
\* dispatched with no command outstanding does its round trips.
C15_PollSerialized ==
    [][(Taken /\ Head(queue).kind = "tick" /\ modes.polling) =>
          IF in_motion
            THEN /\ pubs'.trips = pubs.trips
                 /\ pubs'.state = pubs.state
                 /\ pubs'.position = pubs.position
                 /\ UNCHANGED <<wire, inbox, devq>>
            ELSE pubs'.trips > pubs.trips]_vars

\* C15 witness: ticks have run during a motion command and none has polled.
C15_Witness == in_motion /\ pubs.ticks > 0 /\ pubs.trips = 0

\* The number of mode flags that are set.
FlagsSet(m) == Cardinality({f \in {"script", "periodic", "polling"} : m[f]})

\* C16 (operating mode is fixed): between the configuration and the shutdown
\* exactly one mode flag is set, the one com_mode names; the configuration
\* selects script for "script", auto_update for "auto_update" and polling for
\* every other name; afterwards the flags change only by being cleared, all of
\* them in one step of the shutdown.
C16_ModeFixed ==
    [][/\ (main.pc \notin {"config", "done"} /\ ~main.shutdown) =>
             /\ FlagsSet(modes) = 1
             /\ modes.script <=> main.com = "script"
             /\ modes.periodic <=> main.com = "auto_update"
             /\ modes.polling <=> main.com = "polling"
       /\ (main.pc = "config" /\ main'.pc # "config") =>
             /\ modes'.script <=> main.com = "script"
             /\ modes'.periodic <=> main.com = "auto_update"
             /\ modes'.polling <=> main.com \notin {"script", "auto_update"}
       /\ (main.pc # "config" /\ modes' # modes) =>
             /\ FlagsSet(modes') = 0
             /\ main'.shutdown \/ main'.pc = "done"]_vars

\* C16 witness: the node was given an unknown mode name and serves in polling mode.
C16_Witness ==
    /\ main.pc = "spin"
    /\ ~main.shutdown
    /\ main.param \notin {"script", "auto_update", "polling"}
    /\ modes.polling

\* The reader thread has gone once around its loop.
Received == rd.pc = "loop" /\ rd'.pc = "loop" /\ <<rd, pubs>>' # <<rd, pubs>>

\* The sample of the reader without the frame it was taken from.
Sample(r) == <<r.position, r.speed, r.f_motor, r.ismoving>>

\* C17 (telemetry freshness): a frame received correctly with the opening id,
\* the length of a value frame and status E_SUCCESS sets the sample's position
\* to its value and is followed by exactly one status/joint-state publication,
\* of that position; a frame that msg_receive failed on, or shorter than the
\* status header, changes no field of the sample and publishes nothing.
C17_TelemetryFresh ==
    [][Received =>
          /\ (/\ rd'.msg.res = 0
              /\ rd'.msg.id = ID_GET_OPENING
              /\ rd'.msg.len = 6
              /\ rd'.msg.status = "E_SUCCESS") =>
                /\ rd'.position = rd'.msg.val
                /\ pubs'.state = pubs.state + 1
                /\ pubs'.position = rd'.msg.val
                /\ pubs'.moving = pubs.moving
          /\ (rd'.msg.res < 0 \/ rd'.msg.len < 2) =>
                /\ Sample(rd') = Sample(rd)
                /\ pubs' = pubs]_vars

\* C17 witness: the opening 42 was pushed and published, and then a frame failed.
C17_Witness ==
    /\ rd.msg.res < 0
    /\ rd.position = 42
    /\ pubs.position = 42
    /\ pubs.state = 1

\* A handler of move, grasp, release or increment returns after its loop has
\* ended by itself.
Surfaces ==
    /\ stack # <<>>
    /\ Top.kind \in MotionKinds \ {"home"}
    /\ Top.pc = "slept"
    /\ Len(stack') < Len(stack)

\* C18 (terminal status is surfaced): when the wait of move, grasp, release or
\* increment has ended by itself, it ended on a frame with the awaited id and a
\* status other than E_CMD_PENDING, which is the caller's result, or on a
\* receive error, and the result is 255; the handler leaves in_motion clear and
\* the process running.
C18_StatusSurfaced ==
    [][Surfaces =>
          /\ ~in_motion'
          /\ ~exited'
          /\ Top.msg_available \in {1, -1}
          /\ Top.msg_available = 1 =>
                /\ Top.status.id = CmdId(Top.kind)
                /\ Top.status.status # "E_CMD_PENDING"
                /\ resp' = Reply(Top.kind, Top.status.status, TRUE)
          /\ Top.msg_available = -1 => resp' = Reply(Top.kind, "255", TRUE)]_vars

\* C18 witness: the one command issued so far ended on a receive error that came
\* after an E_CMD_PENDING frame, and 255 was returned.
C18_Witness ==
    /\ resp.error = "255"
    /\ nissued = 1
    /\ nreq = 1
    /\ stack = <<>>
    /\ ~in_motion
    /\ devq # <<>>
    /\ Head(devq).pend > 0

\* The connection attempt has been made.
Attempted == main.pc \notin {"config", "connect"}

\* C19 (connect failure is fatal at startup): an unknown protocol makes the
\* attempt fail, and after a failed attempt main() goes to its end: no service
\* is registered, none of the frames of the startup (fault acknowledge, home,
\* force limit) is sent, no timer is created and no reader thread is started.
C19_ConnectFatal ==
    /\ (Attempted /\ main.protocol \notin {"serial", "udp", "tcp"}) => main.res_con # 0
    /\ (Attempted /\ main.res_con # 0) =>
          /\ main.pc \in {"check", "exit", "done"}
          /\ ~main.services
          /\ main.sent = {}
          /\ ~main.timer
          /\ rd.pc = "none"
          /\ cb = "idle"

\* C19 witness: main() has ended after the attempt over a known protocol failed.
C19_Witness ==
    /\ main.pc = "done"
    /\ main.protocol = "tcp"
    /\ main.res_con # 0
    /\ main.sent = {}

\* Frames carrying id can still reach the drain of stopSrv: one is waiting to be
\* read, or the gripper holds (or is about to take) a command that will answer
\* with one.
Arrives(id) ==
    \/ Matching(id) # {}
    \/ \E i \in 1..Len(devq) : devq[i].id = id
    \/ \E i \in 1..Len(wire) : wire[i].id = id

\* The drain of stopSrv is polling: every call of recv_ack that finds no frame
\* leaves the handler where it is.
Draining == stack # <<>> /\ Top.pc = "drain"

\* C20 (stop terminates): with a gripper that answers every command with exactly
\* one terminal frame and a link without errors, a stop request that waits in
\* its drain always has a frame of the awaited id still to come, so the drain
\* ends, stop returns and the driver becomes idle again.  A drain with no such
\* frame left polls forever: while it polls no other handler runs, so nothing
\* is issued that could produce one.
C20_StopTerminates == Draining => Arrives(last_cmd_id)

\* homingSrv returns without having waited: it was dispatched and left no
\* activation behind (busy, or homing_async() refused the frame).
HomeDirect ==
    /\ queue # <<>>
    /\ Head(queue).kind = "home"
    /\ queue' = Tail(queue)
    /\ Len(stack') = Len(stack)

\* homingSrv returns after its wait loop.
HomeWaited ==
    /\ stack # <<>>
    /\ Top.kind = "home"
    /\ Len(stack') < Len(stack)

\* C21 (home reports success truthfully): homingSrv returns true only when a
\* home frame was sent and its wait ended with a frame of status E_SUCCESS; it
\* returns false when busy, when the send fails, on a receive error and on any
\* other terminal status.
C21_HomeTruthful ==
    [][/\ HomeDirect => (resp'.kind = "home" /\ ~resp'.ret)
       /\ HomeWaited =>
             /\ resp'.kind = "home"
             /\ resp'.ret <=> (Top.msg_available = 1 /\ Top.status.status = "E_SUCCESS")]_vars

\* The frame is a pushed opening value: received correctly, opening id, the
\* 6-byte push length and status E_SUCCESS.
ValidOpening(f) ==
    /\ f.res = 0
    /\ f.id = ID_GET_OPENING
    /\ f.len = 6
    /\ f.status = "E_SUCCESS"

\* C22 (published position validity): the reader's position changes only to
\* the value of a valid opening frame and every such frame sets it, every
\* status/joint-state publication carries that position, and a frame with the
\* opening id and any other length neither overwrites the position nor is
\* followed by a publication.
C22_PositionValid ==
    [][Received =>
          /\ ValidOpening(rd'.msg) => rd'.position = rd'.msg.val
          /\ rd'.position # rd.position => ValidOpening(rd'.msg)
          /\ pubs'.state # pubs.state => pubs'.position = rd'.position
          /\ (rd'.msg.id = ID_GET_OPENING /\ rd'.msg.len # 6) =>
                /\ rd'.position = rd.position
                /\ pubs'.state = pubs.state]_vars

\* Script mode: the services and the measure-and-move timer on one callback
\* queue.
InitScript ==
    /\ g_size = 210
    /\ in_motion = FALSE
    /\ last_cmd_id = 0
    /\ stop_called = FALSE
    /\ stack = <<>>
    /\ queue = <<>>
    /\ wire = <<>>
    /\ inbox = <<>>
    /\ devq = <<>>
    /\ now = 0
    /\ resp = NoResp
    /\ exited = FALSE
    /\ nissued = 0
    /\ faults = 0
    /\ nreq = 0
    /\ Serving("script")

SpecScript == InitScript /\ [][NextPoll]_vars

\* C23 (script mode tick isolation): in script mode a tick that is dispatched
\* while in_motion is set does no round trip on the link.
C23_ScriptTickIsolated ==
    [][(Taken /\ Head(queue).kind = "tick" /\ modes.script /\ in_motion) =>
          pubs'.trips = pubs.trips]_vars

\* No service handler is active.
Idle == stack = <<>>

\* A command that can be cancelled is waiting in the event pump of its loop,
\* or has left it and has not yet tested stop_called.
Pumping ==
    /\ stack # <<>>
    /\ stack[1].kind \in MotionKinds \ {"home"}
    /\ stack[1].pc \in {"spin", "check"}
    /\ in_motion

\* C24 (cancellation flag does not leak): when the driver is idle stop_called
\* and in_motion are both false; stop_called is set only by a stop that returns
\* from its drain inside the event pump of a pending command, stays set only
\* while that command has not yet tested it, and is cleared only by that
\* command's cancel path, which reports E_CMD_ABORTED.
C24_NoFlagLeak ==
    /\ [](Idle => (~stop_called /\ ~in_motion))
    /\ [](stop_called => Pumping)
    /\ [][/\ (~stop_called /\ stop_called') =>
                (Draining /\ Len(stack) = 2 /\ stack' = Rest /\ resp'.kind = "stop")
          /\ (stop_called /\ ~stop_called') =>
                (Len(stack) = 1 /\ Idle' /\ resp'.error = "E_CMD_ABORTED")]_vars

\* C24 witness: a command was cancelled and the driver is idle again with
\* both flags cleared.
C24_Witness ==
    /\ Idle
    /\ resp.error = "E_CMD_ABORTED"
    /\ ~stop_called
    /\ ~in_motion
    /\ ~exited

\* The reader got the frame from msg_receive and went on past the length test.
Read(f) == f.res = 0 /\ f.len >= 2

\* C25 (motion events in streaming mode): a move ack read by the reader with
\* status E_CMD_PENDING publishes moving = true and sets g_ismoving; one with
\* any other status except E_ALREADY_RUNNING publishes moving = false and
\* clears g_ismoving; one with E_ALREADY_RUNNING publishes nothing and leaves
\* g_ismoving alone; a frame with another id never changes g_ismoving.
C25_MotionEvents ==
    [][Received =>
          /\ (Read(rd'.msg) /\ rd'.msg.id = ID_MOVE /\ rd'.msg.status = "E_CMD_PENDING") =>
                /\ pubs'.moving = pubs.moving + 1
                /\ pubs'.ismoving
                /\ rd'.ismoving
          /\ (/\ Read(rd'.msg)
              /\ rd'.msg.id = ID_MOVE
              /\ rd'.msg.status \notin {"E_CMD_PENDING", "E_ALREADY_RUNNING"}) =>
                /\ pubs'.moving = pubs.moving + 1
                /\ ~pubs'.ismoving
                /\ ~rd'.ismoving
          /\ (Read(rd'.msg) /\ rd'.msg.id = ID_MOVE /\ rd'.msg.status = "E_ALREADY_RUNNING") =>
                /\ pubs'.moving = pubs.moving
                /\ rd'.ismoving = rd.ismoving
          /\ rd'.msg.id # ID_MOVE =>
                /\ pubs'.moving = pubs.moving
                /\ rd'.ismoving = rd.ismoving]_vars

\* C25 witness: the gripper was reported moving, and the E_ALREADY_RUNNING ack
\* read after that left the report as it was.
C25_Witness ==
    /\ rd.msg.id = ID_MOVE
    /\ rd.msg.status = "E_ALREADY_RUNNING"
    /\ rd.ismoving
    /\ pubs.moving = 1
    /\ pubs.ismoving

\* position_cb leaves the test of g_mode_periodic.
Decides == cb = "entered" /\ cb' # cb

\* C26 (streaming goal dispatch): in auto_update mode, with no shutdown
\* requested, every goal_position message makes position_cb write one Stop
\* frame and then one Move frame to the goal and speed of the message, and
\* nothing else, whatever in_motion is; in script mode the message writes no
\* frame and leaves the goal cached, and only a tick takes it from the cache.
C26_GoalDispatch ==
    /\ [](cb # "idle" => goal.g_goal_position \in Goals)
    /\ [](cb \in {"entered", "stop"} => goal.sent = <<>>)
    /\ [](cb = "move" => goal.sent = <<StopFrame>>)
    /\ [](cb = "idle" =>
            goal.sent \in {<<>>, <<StopFrame, MoveFrame(goal.g_goal_position, goal.g_speed)>>})
    /\ [](main.com = "script" => goal.sent = <<>>)
    /\ [][/\ (Decides /\ main.com = "auto_update" /\ ~main.shutdown) => cb' = "stop"
          /\ (cb = "move" /\ cb' # cb) =>
                /\ cb' = "idle"
                /\ goal'.sent = <<StopFrame, MoveFrame(goal.g_goal_position, goal.g_speed)>>
                /\ goal'.g_goal_position = goal.g_goal_position
          /\ (Decides /\ main.com = "script") => (cb' = "idle" /\ goal' = goal)
          /\ (main.com = "script" /\ goal'.g_goal_position # goal.g_goal_position) =>
                \/ cb = "idle" /\ cb' = "entered"
                \/ pubs'.ticks = pubs.ticks + 1 /\ goal'.g_goal_position = NAN]_vars

\* C26 witness: position_cb has returned in auto_update mode after it wrote
\* the Stop frame and the Move frame to the goal 30.
C26_Witness ==
    /\ main.com = "auto_update"
    /\ cb = "idle"
    /\ goal.sent = <<StopFrame, MoveFrame(30, 5)>>
    /\ rd.pc = "loop"

====
